---------------------------- MODULE Spec2Model ----------------------------
(***************************************************************************)
(* A model of bootstrap/shell/shell.go: the virtual shell of the build     *)
(* agent.  Two parts of the Shell are modelled as state machines:          *)
(*                                                                         *)
(*   - Shell.LockFile, the pid-file lock shared by separate processes,     *)
(*     with its retry loop, its retry sleep and its context deadline;      *)
(*   - Shell.executeCommand, with its signal relay goroutine, the PTY and  *)
(*     pipe wiring, the wait on the child and the deferred teardown, and   *)
(*     GetExitCode on the error it returns.                                *)
(*                                                                         *)
(* Time is a discrete clock; one tick is half of lockRetryDuration.        *)
(***************************************************************************)
EXTENDS Integers, Sequences, FiniteSets, TLC

(***************************************************************************)
(* Bounds of the model.                                                    *)
(***************************************************************************)
\* The latest clock value at which a LockFile call may start.
MaxTime == 2
\* The longest timeout a caller passes to LockFile, in ticks.
MaxTimeout == 3

\* The number of executeCommand invocations made one after the other.
MaxInvocations == 2
\* The number of signals the process receives in all.
MaxSignals == 2
\* The largest small exit status tried (255 is always tried too).
MaxExitStatus == 3

\* The number of bytes the child writes in one run.
MaxOut == 3

\* make(chan os.Signal, 1): the buffer of the relay's channel.
ChanCap == 1

\* lockRetryDuration (time.Second), in ticks.
lockRetryDuration == 2

\* The processes that share one lock path, each with its own Shell.
Procs == {"p1", "p2"}

None == "none"

\* The clock never needs to pass this value: see HorizonNotReached.
Horizon == MaxTime + MaxTimeout + (2 * lockRetryDuration)

Min(a, b) == IF a < b THEN a ELSE b

VARIABLES
    now,              \* the clock
    owner,            \* the pid written in the lock file, or None
    lpc,              \* each process's position in LockFile
    parentCancelled,  \* whether s.ctx of the process's Shell is cancelled
    ctxErr,           \* ctx.Err() of the context LockFile derives
    deadline,         \* the deadline of the derived context
    timeoutOf,        \* the timeout the caller passed
    wake,             \* when the current time.Sleep ends
    ret,              \* what LockFile returned
    attempts,         \* history: TryLock calls made by the call
    triesAfterDone,   \* history: TryLock calls made with the context done
    cancelAt,         \* history: where the call was when s.ctx was cancelled
    sleepsAfterCancel,\* history: retry sleeps begun after that cancellation
    freedInTime       \* history: the holder unlocked while the call waited,
                      \*          its context still live

lockVars == <<now, owner, lpc, parentCancelled, ctxErr, deadline, timeoutOf,
              wake, ret, attempts, triesAfterDone, cancelAt,
              sleepsAfterCancel, freedInTime>>

VARIABLES
    inv,         \* the number of the current executeCommand invocation
    epc,         \* the position of the calling goroutine in executeCommand
    flagPTY,     \* flags.PTY of the invocation
    debug,       \* s.Debug
    registered,  \* per invocation: its channel is registered with signal.Notify
    chanClosed,  \* per invocation: its channel has been closed
    sigchan,     \* per invocation: the signals buffered in its channel
    rpc,         \* per invocation: the position of its relay goroutine
    rsig,        \* per invocation: the signal its relay goroutine holds
    child,       \* the child process: "none", "running" or "exited"
    exitCode,    \* the status the child passed to exit
    termSig,     \* the signal that killed the child, or None
    spawns,      \* children started by the invocation
    waited,      \* cmd.Wait has returned
    copyErr,     \* what io.Copy(w, pty) returned
    retErr,      \* the error executeCommand returns
    defers,      \* the stack of deferred calls
    stops,       \* signal.Stop calls made by the invocation
    outCloses,   \* stdOutStreamer.Close calls made by the invocation
    errCloses,   \* stdErrStreamer.Close calls made by the invocation
    received,    \* history: signals the process has received
    forwarded,   \* history: signals delivered to a running child
    dropped      \* history: signals that found the channel full

execVars == <<spawns, inv, epc, flagPTY, debug, registered, chanClosed, sigchan, rpc,
              rsig, child, exitCode, termSig, waited, copyErr, retErr, defers,
              stops, outCloses, errCloses, received, forwarded, dropped>>

VARIABLES
    wd,          \* s.wd, the working directory of the Shell
    lastChdir,   \* history: the argument, prior directory and result of the
                 \*          last Chdir
    env,         \* s.Env, the environment of the Shell
    cphase,      \* "idle", or "built" once a command descriptor exists
    capi,        \* the function that built the descriptor
    cmdDir,      \* cmd.Dir of the descriptor
    cmdEnv,      \* cmd.Env of the descriptor
    buildErr,    \* whether the last buildCommand failed
    builtWd,     \* history: s.wd when the descriptor was built
    builtEnv,    \* history: s.Env when the descriptor was built
    builtEntries,\* history: the entries of cmd.Env when the call had set them
    extraEnv,    \* history: the extra environment given to RunScript
    touched      \* history: the Shell was changed after the descriptor was built

shellVars == <<wd, lastChdir, env, cphase, capi, cmdDir, cmdEnv, buildErr,
               builtWd, builtEnv, builtEntries, extraEnv, touched>>

VARIABLES
    rphase,      \* "idle", "running" or "done": a Run, RunAndCapture or RunScript
    rapi,        \* which of the three is running
    sPTY,        \* s.PTY
    sDebug,      \* s.Debug
    rflags,      \* the executeFlags the call passes to executeCommand
    outEmitted,  \* what the child has written to its standard output
    errEmitted,  \* what the child has written to its standard error
    writerOut,   \* what has reached s.Writer
    loggerOut,   \* what has reached s.Logger through a streamer
    bufferOut,   \* what has reached RunAndCapture's buffer
    captured,    \* the string RunAndCapture returned
    runErr       \* whether the call returned an error

runVars == <<rphase, rapi, sPTY, sDebug, rflags, outEmitted, errEmitted,
             writerOut, loggerOut, bufferOut, captured, runErr>>

vars == <<lockVars, execVars, shellVars, runVars>>

Waiting == {"try", "sleep"}
Errors == {"Canceled", "DeadlineExceeded"}

(***************************************************************************)
(* lockfile.TryLock: the lock file is taken atomically (a hard link to the *)
(* path); it fails while another live process owns the file.               *)
(***************************************************************************)
TryLock(o, p) == IF o = None \/ o = p THEN "nil" ELSE "ErrBusy"

\* if err := lock.TryLock(); err != nil { ...sleep } else { break }
AcquiredAlways(err) == TRUE
Acquired(err) == err = "nil"

\* case <-ctx.Done(): the derived context is done once cancelled or expired.
CtxDoneNever(p) == FALSE
CtxDone(p) == ctxErr[p] # None

\* One pass through the head of the loop: the lock is tried whatever the state
\* of the context, which is looked at only after a failed attempt's sleep.
AttemptOnlyWhileLive(p) == ~CtxDone(p) /\ Acquired(TryLock(owner, p))
Attempt(p) == Acquired(TryLock(owner, p))

\* context.WithTimeout(s.ctx, timeout): the error the derived context starts
\* with.  A cancelled parent gives Canceled; a timeout of zero has expired.
WithTimeout(p, timeout) ==
    IF parentCancelled[p] THEN "Canceled"
    ELSE IF timeout <= 0 THEN "DeadlineExceeded"
    ELSE None

LockInit ==
    /\ now = 0
    /\ owner = None
    /\ lpc = [p \in Procs |-> "idle"]
    /\ parentCancelled = [p \in Procs |-> FALSE]
    /\ ctxErr = [p \in Procs |-> None]
    /\ deadline = [p \in Procs |-> 0]
    /\ timeoutOf = [p \in Procs |-> 0]
    /\ wake = [p \in Procs |-> 0]
    /\ ret = [p \in Procs |-> None]
    /\ attempts = [p \in Procs |-> 0]
    /\ triesAfterDone = [p \in Procs |-> 0]
    /\ cancelAt = [p \in Procs |-> None]
    /\ sleepsAfterCancel = [p \in Procs |-> 0]
    /\ freedInTime = [p \in Procs |-> FALSE]

\* LockFile up to the loop: the derived context is created.
LockCall(p, timeout) ==
    /\ lpc[p] = "idle"
    /\ now <= MaxTime
    /\ lpc' = [lpc EXCEPT ![p] = "try"]
    /\ deadline' = [deadline EXCEPT ![p] = now + timeout]
    /\ timeoutOf' = [timeoutOf EXCEPT ![p] = timeout]
    /\ ctxErr' = [ctxErr EXCEPT ![p] = WithTimeout(p, timeout)]
    /\ UNCHANGED <<now, owner, parentCancelled, wake, ret, attempts,
                   triesAfterDone, cancelAt, sleepsAfterCancel, freedInTime>>
    /\ UNCHANGED <<execVars, shellVars, runVars>>

\* One lock.TryLock(): on success the loop is left and the handle returned,
\* on failure the retry sleep begins.
LockTry(p) ==
    /\ lpc[p] = "try"
    /\ attempts' = [attempts EXCEPT ![p] = @ + 1]
    /\ triesAfterDone' = [triesAfterDone EXCEPT
                            ![p] = IF ctxErr[p] # None THEN Min(@ + 1, 2) ELSE @]
    /\ IF Attempt(p)
       THEN /\ owner' = p
            /\ lpc' = [lpc EXCEPT ![p] = "holding"]
            /\ ret' = [ret EXCEPT ![p] = "handle"]
            /\ UNCHANGED <<wake, sleepsAfterCancel>>
       ELSE /\ lpc' = [lpc EXCEPT ![p] = "sleep"]
            /\ wake' = [wake EXCEPT ![p] = now + lockRetryDuration]
            /\ sleepsAfterCancel' = [sleepsAfterCancel EXCEPT
                   ![p] = IF cancelAt[p] # None THEN Min(@ + 1, 2) ELSE @]
            /\ UNCHANGED <<owner, ret>>
    /\ UNCHANGED <<now, parentCancelled, ctxErr, deadline, timeoutOf,
                   cancelAt, freedInTime>>
    /\ UNCHANGED <<execVars, shellVars, runVars>>

\* time.Sleep returns and the select on ctx.Done() runs.
LockCheck(p) ==
    /\ lpc[p] = "sleep"
    /\ now >= wake[p]
    /\ IF CtxDone(p)
       THEN /\ lpc' = [lpc EXCEPT ![p] = "failed"]
            /\ ret' = [ret EXCEPT ![p] = ctxErr[p]]
       ELSE /\ lpc' = [lpc EXCEPT ![p] = "try"]
            /\ UNCHANGED ret
    /\ UNCHANGED <<now, owner, parentCancelled, ctxErr, deadline, timeoutOf,
                   wake, attempts, triesAfterDone, cancelAt,
                   sleepsAfterCancel, freedInTime>>
    /\ UNCHANGED <<execVars, shellVars, runVars>>

\* The holder calls Unlock on its handle: the lock file is removed.
Unlock(p) ==
    /\ lpc[p] = "holding"
    /\ lpc' = [lpc EXCEPT ![p] = "released"]
    /\ owner' = IF owner = p THEN None ELSE owner
    /\ freedInTime' = [q \in Procs |->
          IF q # p /\ lpc[q] \in Waiting /\ attempts[q] >= 1 /\ ctxErr[q] = None
          THEN TRUE ELSE freedInTime[q]]
    /\ UNCHANGED <<now, parentCancelled, ctxErr, deadline, timeoutOf, wake,
                   ret, attempts, triesAfterDone, cancelAt, sleepsAfterCancel>>
    /\ UNCHANGED <<execVars, shellVars, runVars>>

\* The context given to the Shell (NewWithContext) is cancelled.
Cancel(p) ==
    /\ ~parentCancelled[p]
    /\ lpc[p] \in {"idle"} \cup Waiting
    /\ parentCancelled' = [parentCancelled EXCEPT ![p] = TRUE]
    /\ ctxErr' = [ctxErr EXCEPT
          ![p] = IF lpc[p] \in Waiting /\ @ = None THEN "Canceled" ELSE @]
    /\ cancelAt' = [cancelAt EXCEPT
          ![p] = IF lpc[p] \in Waiting /\ ctxErr[p] = None THEN lpc[p] ELSE @]
    /\ UNCHANGED <<now, owner, lpc, deadline, timeoutOf, wake, ret, attempts,
                   triesAfterDone, sleepsAfterCancel, freedInTime>>
    /\ UNCHANGED <<execVars, shellVars, runVars>>

\* Time passes; the timers of the derived contexts fire at their deadlines.
Tick ==
    /\ now < Horizon
    /\ \/ now < MaxTime
       \/ \E p \in Procs : lpc[p] = "sleep" /\ wake[p] > now
    /\ now' = now + 1
    /\ ctxErr' = [p \in Procs |->
          IF lpc[p] \in Waiting /\ ctxErr[p] = None /\ now + 1 >= deadline[p]
          THEN "DeadlineExceeded" ELSE ctxErr[p]]
    /\ UNCHANGED <<owner, lpc, parentCancelled, deadline, timeoutOf, wake, ret,
                   attempts, triesAfterDone, cancelAt, sleepsAfterCancel,
                   freedInTime>>
    /\ UNCHANGED <<execVars, shellVars, runVars>>

(***************************************************************************)
(* executeCommand, its signal relay and GetExitCode.                       *)
(***************************************************************************)
Invs == 1..MaxInvocations

\* signal.Notify(signals, os.Interrupt, SIGHUP, SIGTERM, SIGINT, SIGQUIT)
Signals == {"SIGHUP", "SIGINT", "SIGTERM", "SIGQUIT"}

SigNum(sig) ==
    CASE sig = "SIGHUP" -> 1
      [] sig = "SIGINT" -> 2
      [] sig = "SIGQUIT" -> 3
      [] sig = "SIGTERM" -> 15

ExitStatuses == (0..MaxExitStatus) \cup {255}

\* What io.Copy(w, pty) can return: nil at end of stream, the *os.PathError
\* with EIO of a closed PTY, or any other read or write error.
CopyOutcomes == {"nil", "EIO", "other"}

(* Errors.  kind is the dynamic type of the innermost error, wraps the number
   of pkg/errors wrappers around it and sys what its Sys() returns. *)
NilErr == [kind |-> "nil", wraps |-> 0, sys |-> 0]
ExitError(w) == [kind |-> "ExitError", wraps |-> 0, sys |-> w]
\* fmt.Errorf("...%v", err): a new error that keeps only the text of err.
Errorf == [kind |-> "errorString", wraps |-> 0, sys |-> 0]
\* What cmd.Start returns when the process image cannot be started.
StartError == [kind |-> "PathError", wraps |-> 0, sys |-> 0]

\* errors.Wrapf(err, ...): nil for a nil err, else one more wrapper.
Wrapf(e) == IF e = NilErr THEN NilErr ELSE [e EXCEPT !.wraps = @ + 1]

\* errors.Cause(err): the innermost error, all wrappers removed.
CauseNoUnwrap(e) == e
Cause(e) == [e EXCEPT !.wraps = 0]

\* The wait status of a child: the exit status in bits 8..15 when it exited,
\* the signal number in bits 0..6 when a signal killed it.
WaitStatus(code, sig) ==
    IF sig = None THEN (code % 256) * 256 ELSE SigNum(sig)

\* syscall.WaitStatus.Exited and ExitStatus.
Exited(w) == w % 128 = 0
ExitStatus(w) == IF Exited(w) THEN (w \div 256) % 256 ELSE -1

GetExitCodeZeroDefault(e) ==
    IF e = NilErr THEN 0
    ELSE LET cause == Cause(e) IN
         IF cause.kind = "ExitError" /\ cause.wraps = 0
         THEN ExitStatus(cause.sys)
         ELSE 0

\* GetExitCode: the type switch sees *exec.ExitError only on an error with no
\* wrapper left around it.
GetExitCode(e) ==
    IF e = NilErr THEN 0
    ELSE LET cause == Cause(e) IN
         IF cause.kind = "ExitError" /\ cause.wraps = 0
         THEN ExitStatus(cause.sys)
         ELSE 1

\* defer signal.Stop(signals)
DeferStopForgotten == <<>>
DeferStop == <<"signal.Stop">>

DeferStreamersOutOnly == <<"stdOutStreamer.Close">>

\* defer stdOutStreamer.Close(); defer stdErrStreamer.Close(): the deferred
\* calls run last in, first out.
DeferStreamers == <<"stdErrStreamer.Close", "stdOutStreamer.Close">>

WaitResultNil == NilErr

\* What cmd.Wait returns for the child's state, wrapped by executeCommand.
WaitResult ==
    IF exitCode = 0 /\ termSig = None
    THEN NilErr
    ELSE Wrapf(ExitError(WaitStatus(exitCode, termSig)))

\* signalProcess(cmd, sig) of invocation i reaches the child only while that
\* invocation's child runs; otherwise it fails and the failure is logged.
SignalProcessOK(i) == i = inv /\ child = "running"

ExecInit ==
    /\ inv = 0
    /\ epc = "idle"
    /\ flagPTY = FALSE
    /\ debug = FALSE
    /\ registered = [i \in Invs |-> FALSE]
    /\ chanClosed = [i \in Invs |-> FALSE]
    /\ sigchan = [i \in Invs |-> <<>>]
    /\ rpc = [i \in Invs |-> "unborn"]
    /\ rsig = [i \in Invs |-> None]
    /\ child = "none"
    /\ spawns = 0
    /\ exitCode = 0
    /\ termSig = None
    /\ waited = FALSE
    /\ copyErr = None
    /\ retErr = NilErr
    /\ defers = <<>>
    /\ stops = 0
    /\ outCloses = 0
    /\ errCloses = 0
    /\ received = 0
    /\ forwarded = 0
    /\ dropped = 0

\* executeCommand is entered: the channel is made and registered, signal.Stop
\* is deferred and the relay goroutine is started.
ExecCall(pty, dbg) ==
    /\ epc \in {"idle", "returned"}
    /\ inv < MaxInvocations
    /\ inv' = inv + 1
    /\ epc' = "spawn"
    /\ flagPTY' = pty
    /\ debug' = dbg
    /\ registered' = [registered EXCEPT ![inv + 1] = TRUE]
    /\ rpc' = [rpc EXCEPT ![inv + 1] = "recv"]
    /\ defers' = DeferStop
    /\ child' = "none"
    /\ spawns' = 0
    /\ exitCode' = 0
    /\ termSig' = None
    /\ waited' = FALSE
    /\ copyErr' = None
    /\ retErr' = NilErr
    /\ stops' = 0
    /\ outCloses' = 0
    /\ errCloses' = 0
    /\ UNCHANGED <<chanClosed, sigchan, rsig, received, forwarded, dropped>>
    /\ UNCHANGED <<lockVars, shellVars, runVars>>

\* if flags.PTY: process.StartPTY(cmd) starts the child or fails.
ExecStartPTY(ok) ==
    /\ epc = "spawn"
    /\ flagPTY
    /\ IF ok
       THEN /\ child' = "running"
            /\ epc' = "copy"
            /\ UNCHANGED retErr
       ELSE /\ retErr' = Errorf
            /\ epc' = "defers"
            /\ UNCHANGED child
    /\ UNCHANGED <<inv, flagPTY, debug, registered, chanClosed, sigchan, rpc,
                   rsig, exitCode, termSig, waited, copyErr, defers, stops,
                   outCloses, errCloses, received, forwarded, dropped>>
    /\ spawns' = IF ok THEN spawns + 1 ELSE spawns
    /\ UNCHANGED <<lockVars, shellVars, runVars>>

\* io.Copy(w, pty) returns.  Its error is compared with EIO in an if whose
\* body is empty and is not read again: nothing of it reaches the result.
ExecCopy(e) ==
    /\ epc = "copy"
    /\ e \in {"nil", "EIO"} => child = "exited"
    /\ copyErr' = e
    /\ epc' = "wait"
    /\ UNCHANGED <<inv, flagPTY, debug, registered, chanClosed, sigchan, rpc,
                   rsig, child, exitCode, termSig, waited, retErr, defers,
                   stops, outCloses, errCloses, received, forwarded, dropped>>
    /\ UNCHANGED spawns
    /\ UNCHANGED <<lockVars, shellVars, runVars>>

\* else: the pipes are wired, in debug mode the two streamers are made and
\* their Close deferred, and cmd.Start() starts the child or fails.
ExecStartPipe(ok) ==
    /\ epc = "spawn"
    /\ ~flagPTY
    /\ defers' = IF debug THEN DeferStreamers \o defers ELSE defers
    /\ IF ok
       THEN /\ child' = "running"
            /\ epc' = "wait"
            /\ UNCHANGED retErr
       ELSE /\ retErr' = Wrapf(StartError)
            /\ epc' = "defers"
            /\ UNCHANGED child
    /\ UNCHANGED <<inv, flagPTY, debug, registered, chanClosed, sigchan, rpc,
                   rsig, exitCode, termSig, waited, copyErr, stops, outCloses,
                   errCloses, received, forwarded, dropped>>
    /\ spawns' = IF ok THEN spawns + 1 ELSE spawns
    /\ UNCHANGED <<lockVars, shellVars, runVars>>

\* The child exits with a status.
ChildExit(k) ==
    /\ child = "running"
    /\ child' = "exited"
    /\ exitCode' = k
    /\ UNCHANGED <<inv, epc, flagPTY, debug, registered, chanClosed, sigchan,
                   rpc, rsig, termSig, waited, copyErr, retErr, defers, stops,
                   outCloses, errCloses, received, forwarded, dropped>>
    /\ UNCHANGED spawns
    /\ UNCHANGED <<lockVars, shellVars, runVars>>

\* The child is killed by a signal.
ChildKilled(sig) ==
    /\ child = "running"
    /\ child' = "exited"
    /\ termSig' = sig
    /\ UNCHANGED <<inv, epc, flagPTY, debug, registered, chanClosed, sigchan,
                   rpc, rsig, exitCode, waited, copyErr, retErr, defers, stops,
                   outCloses, errCloses, received, forwarded, dropped>>
    /\ UNCHANGED spawns
    /\ UNCHANGED <<lockVars, shellVars, runVars>>

\* cmd.Wait() returns once the child has terminated; a failure is wrapped.
ExecWait ==
    /\ epc = "wait"
    /\ child = "exited"
    /\ waited' = TRUE
    /\ retErr' = WaitResult
    /\ epc' = "defers"
    /\ UNCHANGED <<inv, flagPTY, debug, registered, chanClosed, sigchan, rpc,
                   rsig, child, exitCode, termSig, copyErr, defers, stops,
                   outCloses, errCloses, received, forwarded, dropped>>
    /\ UNCHANGED spawns
    /\ UNCHANGED <<lockVars, shellVars, runVars>>

\* A return statement was reached: the next deferred call runs.  signal.Stop
\* ends the delivery to the channel; it does not close the channel.
ExecDefer ==
    /\ epc = "defers"
    /\ defers # <<>>
    /\ defers' = Tail(defers)
    /\ LET d == Head(defers) IN
        /\ stops' = IF d = "signal.Stop" THEN stops + 1 ELSE stops
        /\ registered' = IF d = "signal.Stop"
                         THEN [registered EXCEPT ![inv] = FALSE]
                         ELSE registered
        /\ outCloses' = IF d = "stdOutStreamer.Close"
                        THEN outCloses + 1 ELSE outCloses
        /\ errCloses' = IF d = "stdErrStreamer.Close"
                        THEN errCloses + 1 ELSE errCloses
    /\ UNCHANGED <<inv, epc, flagPTY, debug, chanClosed, sigchan, rpc, rsig,
                   child, exitCode, termSig, waited, copyErr, retErr, received,
                   forwarded, dropped>>
    /\ UNCHANGED spawns
    /\ UNCHANGED <<lockVars, shellVars, runVars>>

\* All deferred calls have run: executeCommand returns retErr.
ExecReturn ==
    /\ epc = "defers"
    /\ defers = <<>>
    /\ epc' = "returned"
    /\ UNCHANGED <<inv, flagPTY, debug, registered, chanClosed, sigchan, rpc,
                   rsig, child, exitCode, termSig, waited, copyErr, retErr,
                   defers, stops, outCloses, errCloses, received, forwarded,
                   dropped>>
    /\ UNCHANGED spawns
    /\ UNCHANGED <<lockVars, shellVars, runVars>>

\* The process receives a signal while the invocation's channel is
\* registered: package signal sends without blocking, so a signal that finds
\* the buffer full is not delivered.
Signal(sig) ==
    /\ inv >= 1
    /\ registered[inv]
    /\ received < MaxSignals
    /\ received' = received + 1
    /\ dropped' = IF Len(sigchan[inv]) < ChanCap THEN dropped ELSE dropped + 1
    /\ sigchan' = [i \in Invs |->
          IF registered[i] /\ Len(sigchan[i]) < ChanCap
          THEN Append(sigchan[i], sig) ELSE sigchan[i]]
    /\ UNCHANGED <<inv, epc, flagPTY, debug, registered, chanClosed, rpc, rsig,
                   child, exitCode, termSig, waited, copyErr, retErr, defers,
                   stops, outCloses, errCloses, forwarded>>
    /\ UNCHANGED spawns
    /\ UNCHANGED <<lockVars, shellVars, runVars>>

\* for sig := range signals: the relay takes the next signal, or leaves the
\* loop when the channel is closed and empty.
RelayRecv(i) ==
    /\ rpc[i] = "recv"
    /\ sigchan[i] # <<>> \/ chanClosed[i]
    /\ IF sigchan[i] # <<>>
       THEN /\ rsig' = [rsig EXCEPT ![i] = Head(sigchan[i])]
            /\ sigchan' = [sigchan EXCEPT ![i] = Tail(@)]
            /\ rpc' = [rpc EXCEPT ![i] = "forward"]
       ELSE /\ rpc' = [rpc EXCEPT ![i] = "done"]
            /\ UNCHANGED <<rsig, sigchan>>
    /\ UNCHANGED <<inv, epc, flagPTY, debug, registered, chanClosed, child,
                   exitCode, termSig, waited, copyErr, retErr, defers, stops,
                   outCloses, errCloses, received, forwarded, dropped>>
    /\ UNCHANGED spawns
    /\ UNCHANGED <<lockVars, shellVars, runVars>>

\* signalProcess(cmd, sig); an error is logged and the loop goes on.
RelayForward(i) ==
    /\ rpc[i] = "forward"
    /\ forwarded' = IF SignalProcessOK(i) THEN forwarded + 1 ELSE forwarded
    /\ rpc' = [rpc EXCEPT ![i] = "recv"]
    /\ rsig' = [rsig EXCEPT ![i] = None]
    /\ UNCHANGED <<inv, epc, flagPTY, debug, registered, chanClosed, sigchan,
                   child, exitCode, termSig, waited, copyErr, retErr, defers,
                   stops, outCloses, errCloses, received, dropped>>
    /\ UNCHANGED spawns
    /\ UNCHANGED <<lockVars, shellVars, runVars>>

ExecNext ==
    \/ \E pty \in BOOLEAN : \E dbg \in BOOLEAN : ExecCall(pty, dbg)
    \/ \E ok \in BOOLEAN : ExecStartPTY(ok)
    \/ \E e \in CopyOutcomes : ExecCopy(e)
    \/ \E ok \in BOOLEAN : ExecStartPipe(ok)
    \/ \E k \in ExitStatuses : ChildExit(k)
    \/ \E sig \in Signals : ChildKilled(sig)
    \/ ExecWait
    \/ ExecDefer
    \/ ExecReturn
    \/ \E sig \in Signals : Signal(sig)
    \/ \E i \in Invs : RelayRecv(i)
    \/ \E i \in Invs : RelayForward(i)

(***************************************************************************)
(* The Shell's working directory, environment and command descriptors.     *)
(***************************************************************************)
\* A path: absolute or relative, and its components as written.
AbsPath(c) == [abs |-> TRUE, comps |-> c]
RelPath(c) == [abs |-> FALSE, comps |-> c]

\* The file system the Shell runs on: /, /a and /a/b are directories, /a/f is
\* a regular file, nothing else exists.
FSKind(c) ==
    IF c \in {<<>>, <<"a">>, <<"a", "b">>} THEN "dir"
    ELSE IF c = <<"a", "f">> THEN "file"
    ELSE "missing"

Parent(c) == IF c = <<>> THEN <<>> ELSE SubSeq(c, 1, Len(c) - 1)

\* filepath.Clean of an absolute path: ".." removes the component before it,
\* lexically, and is dropped at the root.
RECURSIVE CleanFrom(_, _)
CleanFrom(done, rest) ==
    IF rest = <<>> THEN done
    ELSE IF Head(rest) = ".." THEN CleanFrom(Parent(done), Tail(rest))
    ELSE CleanFrom(Append(done, Head(rest)), Tail(rest))

Clean(c) == CleanFrom(<<>>, c)

\* filepath.IsAbs and filepath.Join (Join cleans its result).
IsAbs(path) == path.abs
Join(w, path) == [abs |-> w.abs, comps |-> Clean(w.comps \o path.comps)]

\* os.Stat of an absolute path, resolved as the kernel does: every component
\* before the last must be a directory, ".." is the parent directory.
RECURSIVE Walk(_, _)
Walk(cur, rest) ==
    IF rest = <<>> THEN FSKind(cur)
    ELSE IF FSKind(cur) # "dir" THEN "missing"
    ELSE IF Head(rest) = ".." THEN Walk(Parent(cur), Tail(rest))
    ELSE Walk(Append(cur, Head(rest)), Tail(rest))

StatKind(path) == Walk(<<>>, path.comps)

\* if _, err := os.Stat(path); err != nil
StatFails(path) == StatKind(path) = "missing"

\* if !filepath.IsAbs(path) { path = filepath.Join(s.wd, path) }
ChdirTargetAsGiven(w, path) == path
ChdirTarget(w, path) == IF IsAbs(path) THEN path ELSE Join(w, path)

\* The arguments Chdir is called with.
ChdirArgs ==
    {RelPath(<<"a">>), RelPath(<<"b">>), RelPath(<<"f">>), RelPath(<<"x">>),
     RelPath(<<"..">>), RelPath(<<"x", "..">>),
     AbsPath(<<>>), AbsPath(<<"a">>), AbsPath(<<"a", "f">>), AbsPath(<<"x">>),
     AbsPath(<<"a", "..", "a", "b">>)}

\* os.Getwd() at construction: an existing directory (the others are reached
\* by Chdir).
StartDir == AbsPath(<<>>)

(* Environments are functions from some of Keys to Vals.  The env package's
   ToSlice, FromSlice and Merge are not in shell.go. *)
Keys == {"K1", "K2"}
Vals == {"u", "v"}
KeyOrder == <<"K1", "K2">>
EmptyEnv == [k \in {} |-> "u"]
\* The extra environments RunScript is called with (nil is the empty one).
ExtraEnvs ==
    {EmptyEnv, [k \in {"K1"} |-> "v"], [k \in {"K2"} |-> "v"],
     [k \in Keys |-> IF k = "K1" THEN "v" ELSE "u"]}

\* toFlatList: the ordered list of KEY=VALUE entries, a new list each time.
ToSlice(e) ==
    LET ks == SelectSeq(KeyOrder, LAMBDA k : k \in DOMAIN e)
    IN  [i \in 1..Len(ks) |-> <<ks[i], e[ks[i]]>>]

\* fromFlatList: the last entry of a key wins.
FromSlice(sl) ==
    [k \in {sl[i][1] : i \in 1..Len(sl)} |->
        sl[CHOOSE i \in 1..Len(sl) :
              sl[i][1] = k /\ \A j \in (i + 1)..Len(sl) : sl[j][1] # k][2]]

\* merge: a new container, other wins on conflict.
Merge(e, other) ==
    [k \in DOMAIN e \cup DOMAIN other |->
        IF k \in DOMAIN other THEN other[k] ELSE e[k]]

\* cmd.Env = s.Env.ToSlice(): the descriptor holds its own list of entries.
BuildEnvShared(e) == [alias |-> TRUE, entries |-> <<>>]
BuildEnv(e) == [alias |-> FALSE, entries |-> ToSlice(e)]

\* cmd.Dir = s.wd
BuildDir(w) == w

\* The entries a descriptor's cmd.Env shows now.
Entries(ce) == IF ce.alias THEN ToSlice(env) ELSE ce.entries

\* currentEnv := env.FromSlice(cmd.Env); customEnv := currentEnv.Merge(extra)
ScriptEnvSwapped(entries, extra) == Merge(extra, FromSlice(entries))
ScriptEnv(entries, extra) == Merge(FromSlice(entries), extra)

Apis == {"Run", "RunAndCapture", "RunScript"}
NoPath == AbsPath(<<"none">>)
NoChdir == [arg |-> NoPath, prior |-> NoPath, err |-> FALSE]
NoCmdEnv == [alias |-> FALSE, entries |-> <<>>]

ShellInit ==
    /\ wd = StartDir
    /\ lastChdir = NoChdir
    /\ env = [k \in {"K1"} |-> "u"]
    /\ cphase = "idle"
    /\ capi = None
    /\ cmdDir = NoPath
    /\ cmdEnv = NoCmdEnv
    /\ buildErr = FALSE
    /\ builtWd = NoPath
    /\ builtEnv = EmptyEnv
    /\ builtEntries = <<>>
    /\ extraEnv = EmptyEnv
    /\ touched = FALSE

\* Shell.Chdir
Chdir(path) ==
    /\ LET target == ChdirTarget(wd, path) IN
         /\ wd' = IF StatFails(target) THEN wd ELSE target
         /\ lastChdir' = [arg |-> path, prior |-> wd, err |-> StatFails(target)]
    /\ touched' = (cphase = "built")
    /\ UNCHANGED <<env, cphase, capi, cmdDir, cmdEnv, buildErr, builtWd,
                   builtEnv, builtEntries, extraEnv>>
    /\ UNCHANGED <<lockVars, execVars, runVars>>

\* The owner of the Shell sets a variable of s.Env.
SetEnv(k, v) ==
    /\ env' = [x \in DOMAIN env \cup {k} |-> IF x = k THEN v ELSE env[x]]
    /\ env' # env
    /\ touched' = (cphase = "built")
    /\ UNCHANGED <<wd, lastChdir, cphase, capi, cmdDir, cmdEnv, buildErr,
                   builtWd, builtEnv, builtEntries, extraEnv>>
    /\ UNCHANGED <<lockVars, execVars, runVars>>

\* Run, RunAndCapture or RunScript up to its executeCommand call: buildCommand
\* resolves the executable (found) and fills the descriptor from the Shell;
\* RunScript then replaces cmd.Env by the merged environment.
ShellCall(api, extra, found) ==
    /\ api # "RunScript" => extra = EmptyEnv
    /\ capi' = api
    /\ touched' = FALSE
    /\ IF found
       THEN LET built == BuildEnv(env)
                final == IF api = "RunScript"
                         THEN [alias |-> FALSE,
                               entries |-> ToSlice(ScriptEnv(Entries(built), extra))]
                         ELSE built
            IN  /\ cphase' = "built"
                /\ buildErr' = FALSE
                /\ cmdDir' = BuildDir(wd)
                /\ cmdEnv' = final
                /\ builtWd' = wd
                /\ builtEnv' = env
                /\ builtEntries' = Entries(final)
                /\ extraEnv' = extra
       ELSE /\ cphase' = "idle"
            /\ buildErr' = TRUE
            /\ cmdDir' = NoPath
            /\ cmdEnv' = NoCmdEnv
            /\ builtWd' = NoPath
            /\ builtEnv' = EmptyEnv
            /\ builtEntries' = <<>>
            /\ extraEnv' = EmptyEnv
    /\ UNCHANGED <<wd, lastChdir, env>>
    /\ UNCHANGED <<lockVars, execVars, runVars>>

ShellNext ==
    \/ \E path \in ChdirArgs : Chdir(path)
    \/ \E k \in Keys : \E v \in Vals : SetEnv(k, v)
    \/ \E api \in Apis : \E extra \in ExtraEnvs : \E found \in BOOLEAN :
          ShellCall(api, extra, found)

(***************************************************************************)
(* Run, RunAndCapture and RunScript: where the child's output goes.        *)
(***************************************************************************)
\* What the child writes: text and white space on standard output, and a
\* byte that only ever appears on standard error.
OutChars == {"h", " "}
ErrChars == {"E"}
Space == {" "}

\* The executeFlags each function passes.
RunFlagsShellPTY(api, pty) ==
    [Stdout |-> TRUE, Stderr |-> api # "RunAndCapture", PTY |-> pty]
RunFlags(api, pty) ==
    [Stdout |-> TRUE,
     Stderr |-> api # "RunAndCapture",
     PTY |-> IF api = "RunAndCapture" THEN FALSE ELSE pty]

\* The io.Writer each function passes: s.Writer, or RunAndCapture's buffer.
SinkOf(api) == IF api = "RunAndCapture" THEN "buffer" ELSE "writer"

\* Where executeCommand sends the child's standard output: the PTY is copied
\* to w; a pipe goes to w, in debug mode also to a logger streamer.
StdoutDest(flags, dbg, w) ==
    IF flags.PTY THEN {w}
    ELSE IF dbg THEN {"logger", w}
    ELSE {w}

\* Where it sends the child's standard error: the PTY carries it to w; with
\* pipes cmd.Stderr is nil (discarded) unless debug mode sets the logger
\* streamer.  flags.Stderr is not read.
StderrDest(flags, dbg, w) ==
    IF flags.PTY THEN {w}
    ELSE IF dbg THEN {"logger"}
    ELSE {}

\* strings.TrimSpace
RECURSIVE TrimLeft(_)
TrimLeft(str) ==
    IF str # <<>> /\ Head(str) \in Space THEN TrimLeft(Tail(str)) ELSE str

RECURSIVE TrimRight(_)
TrimRight(str) ==
    IF str # <<>> /\ str[Len(str)] \in Space
    THEN TrimRight(SubSeq(str, 1, Len(str) - 1))
    ELSE str

TrimSpaceLeftOnly(str) == TrimLeft(str)
TrimSpace(str) == TrimRight(TrimLeft(str))

NoFlags == [Stdout |-> FALSE, Stderr |-> FALSE, PTY |-> FALSE]

RunInit ==
    /\ rphase = "idle"
    /\ rapi = None
    /\ sPTY = FALSE
    /\ sDebug = FALSE
    /\ rflags = NoFlags
    /\ outEmitted = <<>>
    /\ errEmitted = <<>>
    /\ writerOut = <<>>
    /\ loggerOut = <<>>
    /\ bufferOut = <<>>
    /\ captured = <<>>
    /\ runErr = FALSE

\* One of the three functions is called on a Shell with the given PTY and
\* Debug fields and reaches executeCommand.
RunCall(api, pty, dbg) ==
    /\ rphase = "idle"
    /\ rphase' = "spawn"
    /\ rapi' = api
    /\ sPTY' = pty
    /\ sDebug' = dbg
    /\ rflags' = RunFlags(api, pty)
    /\ UNCHANGED <<outEmitted, errEmitted, writerOut, loggerOut, bufferOut,
                   captured, runErr>>
    /\ UNCHANGED <<lockVars, execVars, shellVars>>

\* The child is started, or the start fails and the call returns the error.
RunSpawn(ok) ==
    /\ rphase = "spawn"
    /\ rphase' = IF ok THEN "running" ELSE "done"
    /\ runErr' = ~ok
    /\ UNCHANGED <<rapi, sPTY, sDebug, rflags, outEmitted, errEmitted,
                   writerOut, loggerOut, bufferOut, captured>>
    /\ UNCHANGED <<lockVars, execVars, shellVars>>

Deliver(sink, dests, c, old) == IF sink \in dests THEN Append(old, c) ELSE old

\* The child writes a byte to its standard output.
EmitOut(c) ==
    /\ rphase = "running"
    /\ Len(outEmitted) + Len(errEmitted) < MaxOut
    /\ outEmitted' = Append(outEmitted, c)
    /\ LET dests == StdoutDest(rflags, sDebug, SinkOf(rapi)) IN
         /\ writerOut' = Deliver("writer", dests, c, writerOut)
         /\ loggerOut' = Deliver("logger", dests, c, loggerOut)
         /\ bufferOut' = Deliver("buffer", dests, c, bufferOut)
    /\ UNCHANGED <<rphase, rapi, sPTY, sDebug, rflags, errEmitted, captured,
                   runErr>>
    /\ UNCHANGED <<lockVars, execVars, shellVars>>

\* The child writes a byte to its standard error.
EmitErr(c) ==
    /\ rphase = "running"
    /\ Len(outEmitted) + Len(errEmitted) < MaxOut
    /\ errEmitted' = Append(errEmitted, c)
    /\ LET dests == StderrDest(rflags, sDebug, SinkOf(rapi)) IN
         /\ writerOut' = Deliver("writer", dests, c, writerOut)
         /\ loggerOut' = Deliver("logger", dests, c, loggerOut)
         /\ bufferOut' = Deliver("buffer", dests, c, bufferOut)
    /\ UNCHANGED <<rphase, rapi, sPTY, sDebug, rflags, outEmitted, captured,
                   runErr>>
    /\ UNCHANGED <<lockVars, execVars, shellVars>>

\* The child terminates and the call returns: an error when it failed, and
\* from RunAndCapture the trimmed buffer when it did not.
RunFinish(failed) ==
    /\ rphase = "running"
    /\ rphase' = "done"
    /\ runErr' = failed
    /\ captured' = IF rapi = "RunAndCapture" /\ ~failed
                   THEN TrimSpace(bufferOut) ELSE <<>>
    /\ UNCHANGED <<rapi, sPTY, sDebug, rflags, outEmitted, errEmitted,
                   writerOut, loggerOut, bufferOut>>
    /\ UNCHANGED <<lockVars, execVars, shellVars>>

RunNext ==
    \/ \E api \in Apis : \E pty \in BOOLEAN : \E dbg \in BOOLEAN :
          RunCall(api, pty, dbg)
    \/ \E ok \in BOOLEAN : RunSpawn(ok)
    \/ \E c \in OutChars : EmitOut(c)
    \/ \E c \in ErrChars : EmitErr(c)
    \/ \E failed \in BOOLEAN : RunFinish(failed)

Init == LockInit /\ ExecInit /\ ShellInit /\ RunInit

LockStep(p) == LockTry(p) \/ LockCheck(p)

LockNext ==
    \/ \E p \in Procs : \E t \in 0..MaxTimeout : LockCall(p, t)
    \/ \E p \in Procs : LockTry(p)
    \/ \E p \in Procs : LockCheck(p)
    \/ \E p \in Procs : Unlock(p)
    \/ \E p \in Procs : Cancel(p)
    \/ Tick

LockSpec == Init /\ [][LockNext]_vars

ExecSpec == Init /\ [][ExecNext]_vars

ShellSpec == Init /\ [][ShellNext]_vars

RunSpec == Init /\ [][RunNext]_vars

\* A running process takes its next step and time passes; nothing obliges a
\* holder to unlock, a caller to call or anyone to cancel.
LockFairSpec ==
    /\ LockSpec
    /\ \A p \in Procs : WF_vars(LockStep(p))
    /\ WF_vars(Tick)

HorizonNotReached == now < Horizon

(***************************************************************************)
(* Properties of LockFile.                                                 *)
(***************************************************************************)
Others(p) == Procs \ {p}

\* The most TryLock calls a call with timeout t can make: attempt j+1 follows
\* a context check that passed j retry sleeps after the call began.
MaxAttempts(t) == IF t <= 0 THEN 1 ELSE ((t - 1) \div lockRetryDuration) + 1

\* C1: mutual exclusion of LockFile.  At most one process holds the lock at
\* any time and the holder is the owner written in the lock file, so a second
\* caller is handed the lock only after the holder has called Unlock.
C1_MutualExclusion ==
    /\ Cardinality({p \in Procs : lpc[p] = "holding"}) <= 1
    /\ \A p \in Procs : lpc[p] = "holding" => owner = p

\* C1 witness: a caller that had to retry holds the lock after the first
\* holder unlocked.
C1_Witness ==
    \E p \in Procs : \E q \in Others(p) :
        lpc[q] = "released" /\ lpc[p] = "holding" /\ attempts[p] >= 2

\* C2: LockFile never blocks forever.  While the holder keeps the lock, a
\* waiting call eventually returns the context's error, and a call makes no
\* more TryLock attempts than its timeout allows.
C2_NeverBlocksForever ==
    /\ [](\A p \in Procs : attempts[p] <= MaxAttempts(timeoutOf[p]))
    /\ \A p \in Procs : \A q \in Others(p) :
          (lpc[p] \in Waiting /\ lpc[q] = "holding")
              ~> (ret[p] \in Errors \/ lpc[q] # "holding")

\* C2 witness: a call timed out after several attempts while the other
\* process still holds the lock.
C2_Witness ==
    \E p \in Procs : \E q \in Others(p) :
        /\ lpc[q] = "holding"
        /\ ret[p] = "DeadlineExceeded"
        /\ attempts[p] = MaxAttempts(timeoutOf[p])
        /\ attempts[p] >= 2

\* C3 as claimed: when the holder unlocks while the waiter's context is still
\* live and nobody else takes the lock, the waiter does not return the
\* timeout error.
C3_Original ==
    \A p \in Procs : freedInTime[p] => ret[p] # "DeadlineExceeded"

\* C3 as amended: when the contention has cleared by the time the waiter
\* begins a lock attempt (an attempt that follows a context check that found
\* the context live), the call returns the handle, even if the deadline passes
\* before the attempt runs.
C3_Amended ==
    \A p \in Procs :
        (/\ lpc[p] = "try"
         /\ attempts[p] >= 1
         /\ owner = None
         /\ \A q \in Others(p) : lpc[q] = "released")
            ~> (ret[p] = "handle")

\* C3 witness: a waiter whose holder unlocked during its retry sleep, before
\* the deadline, got the handle at its next attempt.
C3_Witness ==
    \E p \in Procs : freedInTime[p] /\ ret[p] = "handle" /\ timeoutOf[p] > 0

\* C4 as claimed: no TryLock is made once the derived context is done.
C4_Original ==
    \A p \in Procs : triesAfterDone[p] = 0

\* C4 as amended: once the derived context is done LockFile makes at most one
\* further TryLock, the attempt that was already due; a call that fails
\* returns the error of its context.
C4_Amended ==
    \A p \in Procs :
        /\ triesAfterDone[p] <= 1
        /\ lpc[p] = "failed" => (ctxErr[p] # None /\ ret[p] = ctxErr[p])

\* C4 witness: a call made one attempt with its context done, found the lock
\* busy and failed with the context's error.
C4_Witness ==
    \E p \in Procs :
        triesAfterDone[p] = 1 /\ lpc[p] = "failed" /\ ret[p] \in Errors

\* C5: bounded response to cancellation.  After the Shell's context is
\* cancelled during a wait, the call begins at most one more retry sleep (none
\* when the cancellation falls in a sleep), and while the lock stays held it
\* returns the cancellation error.
C5_BoundedCancel ==
    /\ [](\A p \in Procs :
            /\ sleepsAfterCancel[p] <= 1
            /\ cancelAt[p] = "sleep" => sleepsAfterCancel[p] = 0)
    /\ \A p \in Procs : \A q \in Others(p) :
          (cancelAt[p] # None /\ lpc[p] \in Waiting /\ lpc[q] = "holding")
              ~> (ret[p] = "Canceled" \/ lpc[q] # "holding")

\* C5 witness: cancelled just before an attempt, the call slept once more and
\* returned Canceled while the lock was still held.
C5_Witness ==
    \E p \in Procs : \E q \in Others(p) :
        /\ cancelAt[p] = "try"
        /\ sleepsAfterCancel[p] = 1
        /\ ret[p] = "Canceled"
        /\ lpc[q] = "holding"

(***************************************************************************)
(* Properties of executeCommand and GetExitCode.                           *)
(***************************************************************************)
RelayAlive(i) == rpc[i] \in {"recv", "forward"}

\* C6 as claimed: no activity outlives its owning call.  When executeCommand
\* has returned, the relay goroutine of this invocation and of every earlier
\* one has left its loop.
C6_Original ==
    epc = "returned" => \A i \in 1..inv : ~RelayAlive(i)

\* C7: the signal registration is released exactly once on every exit path,
\* before executeCommand returns, and when a child was spawned only after
\* cmd.Wait has returned.
C7_StopOnceAfterWait ==
    /\ stops <= 1
    /\ epc = "returned" => (stops = 1 /\ ~registered[inv])
    /\ (stops >= 1 /\ child # "none") => waited

\* C7 witness: a call whose child was spawned and failed has returned with
\* the registration released.
C7_Witness ==
    /\ epc = "returned"
    /\ child = "exited"
    /\ waited
    /\ retErr # NilErr
    /\ stops = 1

\* C8 as claimed: no signal received between the relay's setup and teardown
\* is dropped.
C8_Original == dropped = 0

\* C9 as claimed: in PTY mode a copy error other than the EIO path error
\* makes executeCommand return a non-nil error.
C9_Original ==
    (epc = "returned" /\ flagPTY /\ copyErr = "other") => retErr # NilErr

\* C10: exit-status round trip.  When the child exited with a non-zero
\* status k, GetExitCode of the error executeCommand returns is k.
C10_ExitStatusRoundTrip ==
    (epc = "returned" /\ waited /\ termSig = None /\ exitCode # 0)
        => GetExitCode(retErr) = exitCode

\* C10 witness: a child that exited with status 3 gave an error that
\* translates to 3.
C10_Witness ==
    /\ epc = "returned"
    /\ waited
    /\ termSig = None
    /\ exitCode = 3
    /\ retErr.wraps = 1
    /\ GetExitCode(retErr) = 3

(***************************************************************************)
(* Properties of Chdir, the environment and the command descriptor.        *)
(***************************************************************************)
ChdirCalled == lastChdir # NoChdir

\* The path a Chdir argument names: itself when absolute, else the prior
\* working directory joined with it.
Named(w, a) == IF a.abs THEN a ELSE Join(w, a)

C12_Original == wd.abs /\ StatKind(wd) = "dir"

\* C15: the environment of RunScript's process is the built command's
\* environment overridden by the extra one: a key of the extra environment
\* has the extra value, any other key keeps the inherited value, and the
\* Shell's own environment is as it was.
C15_ScriptEnvMerge ==
    (cphase = "built" /\ capi = "RunScript") =>
        LET ce == FromSlice(Entries(cmdEnv)) IN
            /\ DOMAIN ce = DOMAIN builtEnv \cup DOMAIN extraEnv
            /\ \A k \in DOMAIN extraEnv : ce[k] = extraEnv[k]
            /\ \A k \in DOMAIN builtEnv \ DOMAIN extraEnv : ce[k] = builtEnv[k]
            /\ ~touched => env = builtEnv

\* C15 witness: a script was given an extra value for a key the Shell has
\* with another value, next to a key only the Shell has.
C15_Witness ==
    /\ cphase = "built"
    /\ capi = "RunScript"
    /\ ~touched
    /\ DOMAIN builtEnv = Keys
    /\ DOMAIN extraEnv = {"K1"}
    /\ extraEnv["K1"] # builtEnv["K1"]
    /\ FromSlice(Entries(cmdEnv))["K1"] = extraEnv["K1"]

\* C18: a built descriptor is a snapshot.  Its working directory and its
\* environment entries stay what they were when it was built, whatever Chdir
\* or change of the environment follows, and they were taken from the Shell
\* as it was at the call.
C18_DescriptorSnapshot ==
    cphase = "built" =>
        /\ cmdDir = builtWd
        /\ Entries(cmdEnv) = builtEntries
        /\ capi # "RunScript" => builtEntries = ToSlice(builtEnv)

\* C18 witness: after the descriptor was built both the working directory
\* and the environment of the Shell changed.
C18_Witness ==
    /\ cphase = "built"
    /\ capi = "Run"
    /\ touched
    /\ wd # builtWd
    /\ env # builtEnv
    /\ cmdDir = builtWd

(***************************************************************************)
(* Properties of Run and RunAndCapture.                                    *)
(***************************************************************************)
ErrPart(str) == SelectSeq(str, LAMBDA c : c \in ErrChars)
Spaces(str) == \A i \in 1..Len(str) : str[i] \in Space

\* str is rest with white space removed at both ends.
IsTrimOf(str, rest) ==
    /\ str = <<>> \/ (Head(str) \notin Space /\ str[Len(str)] \notin Space)
    /\ \E i \in 0..Len(rest) : \E j \in i..Len(rest) :
          /\ Spaces(SubSeq(rest, 1, i))
          /\ Spaces(SubSeq(rest, j + 1, Len(rest)))
          /\ str = SubSeq(rest, i + 1, j)

\* C13: RunAndCapture never uses PTY mode, the child's standard error never
\* reaches the buffer (it is discarded without debug mode and goes to the
\* logger only with it), and the string returned is the child's standard
\* output without leading and trailing white space.
C13_CaptureStdoutOnly ==
    rapi = "RunAndCapture" =>
        /\ ~rflags.PTY
        /\ ErrPart(bufferOut) = <<>>
        /\ writerOut = <<>>
        /\ ~sDebug => loggerOut = <<>>
        /\ sDebug => ErrPart(loggerOut) = errEmitted
        /\ bufferOut = outEmitted
        /\ (rphase = "done" /\ ~runErr) => IsTrimOf(captured, outEmitted)

\* C13 witness: on a Shell with the PTY flag, in debug mode, the child wrote
\* to both streams and RunAndCapture returned the trimmed text.
C13_Witness ==
    /\ rapi = "RunAndCapture"
    /\ sPTY
    /\ sDebug
    /\ rphase = "done"
    /\ ~runErr
    /\ errEmitted # <<>>
    /\ captured = <<"h">>
    /\ outEmitted = <<" ", "h">>

\* C14 as claimed: everything the child of Run writes to its standard error
\* reaches the Shell's writer or its logger, in every mode.
C14_Original ==
    rapi = "Run" => ErrPart(writerOut) \o ErrPart(loggerOut) = errEmitted

(***************************************************************************)
(* Further properties of executeCommand, LockFile and GetExitCode.         *)
(***************************************************************************)
ChildFailed == child = "exited" /\ (exitCode # 0 \/ termSig # None)

C17_StreamersClosedOnce ==
    /\ outCloses <= 1
    /\ errCloses <= 1
    /\ (epc = "returned" /\ ~flagPTY /\ debug)
          => (outCloses = 1 /\ errCloses = 1)
    /\ (outCloses + errCloses >= 1 /\ child # "none") => waited

\* C17 witness: cmd.Start failed in debug mode and both streamers were closed
\* on the way out.
C17_Witness ==
    /\ epc = "returned"
    /\ ~flagPTY
    /\ debug
    /\ child = "none"
    /\ outCloses = 1
    /\ errCloses = 1

\* C19: the result of LockFile matches the lock.  A call that returned an
\* error holds no lock, a call that returned the handle is the owner of the
\* lock file, and a call that has not returned has neither a result nor the
\* lock.
C19_ResultMatchesLock ==
    \A p \in Procs :
        /\ ret[p] \in Errors <=> lpc[p] = "failed"
        /\ ret[p] = "handle" <=> lpc[p] \in {"holding", "released"}
        /\ lpc[p] = "holding" <=> owner = p
        /\ lpc[p] \in {"idle", "try", "sleep"} => ret[p] = None

\* C19 witness: one call failed with the context's error while the other
\* process kept the lock it had.
C19_Witness ==
    \E p \in Procs : \E q \in Others(p) :
        ret[p] \in Errors /\ owner = q /\ ret[q] = "handle"

\* C20: GetExitCode is 0 exactly for the nil error; an error that is no
\* process-exit error gives 1; the error of a failed execution never gives 0.
C20_ZeroOnlyForNil ==
    /\ GetExitCode(NilErr) = 0
    /\ epc = "returned" =>
         /\ GetExitCode(retErr) = 0 <=> retErr = NilErr
         /\ (retErr # NilErr /\ Cause(retErr).kind # "ExitError")
               => GetExitCode(retErr) = 1
         /\ (ChildFailed \/ child = "none") => GetExitCode(retErr) # 0

\* C20 witness: cmd.Start failed and the error translates to 1.
C20_Witness ==
    /\ epc = "returned"
    /\ ~flagPTY
    /\ child = "none"
    /\ retErr = Wrapf(StartError)
    /\ GetExitCode(retErr) = 1
=============================================================================
